---- MODULE Spec2Model ----
(***************************************************************************)
(* ClaudeAgents (JavaScript implementation): the MemoryManager key/value   *)
(* store with its optional JSON persistence, and the ManagerAgent          *)
(* pipeline that runs the specialized agents one after the other.          *)
(*                                                                         *)
(* Two specifications share the variables:                                 *)
(*   SpecMem  clients call the public operations of MemoryManager          *)
(*            instances that share one storage directory;                  *)
(*   SpecMgr  callers run ManagerAgent.execute.                            *)
(***************************************************************************)
EXTENDS Integers, Sequences, FiniteSets, TLC

(***************************************************************************)
(* Bounds of the model.                                                    *)
(***************************************************************************)
\* number of MemoryManager operations in one behaviour of SpecMem
MaxOps == 4
\* number of ManagerAgent.execute runs in one behaviour of SpecMgr
MaxRuns == 2

(***************************************************************************)
(* Values.  JavaScript values are named by strings.  Agent ids and keys    *)
(* are ordinary non-empty strings (uuids and identifiers), never names of  *)
(* Object.prototype members.                                               *)
(***************************************************************************)
Undefined == "undefined"
JsonNull == "null"
\* arrays among the values (Array.isArray)
ArrayValues == {"[]", "[m]"}
\* values clients store in SpecMem: a string and a NaN
StoreValues == {"v1", "NaN"}

Insts == {1, 2}
AgentIds == {"a1", "a2"}
ConversationKey == "conversation_history"
ClientKeys == {"k1", ConversationKey}
PipelineKeys == {"original_prompt", "requirements", "architecture", "libraries",
                 "software_plan", "code_result", "debug_result", "dependency_analysis"}
AllKeys == ClientKeys \cup PipelineKeys
MemoryTypes == {"buffer", "summary"}

VARIABLES
  insts,             \* the MemoryManager instances in use, a subset of Insts
  persistToDisk,     \* constructor argument, the same for the managers of a directory
  llm,               \* whether the managers were given a language model
  memoryStore,       \* memoryStore[i][a]: the per-agent object of manager i, if any
  langchainMemories, \* langchainMemories[i][a]: the LangChain memory of agent a, if any
  disk,              \* disk[a]: the file <a>.json of the storage directory
  lcDisk,            \* lcDisk[a]: the file <a>_langchain.json
  last,              \* the last operation called, its arguments and its outcome
  everStored,        \* pairs <<a,k>> clients have stored at any time
  nops               \* operations called so far

memVars == <<insts, persistToDisk, llm, memoryStore, langchainMemories, disk, lcDisk,
             last, everStored, nops>>

VARIABLES
  variant,            \* which ManagerAgent source is running: "plain" or "langchain"
  mgrMemory,          \* whether the Manager was constructed with a memoryManager
  pc,                 \* where the execute call of the Manager stands
  step,               \* number of the pipeline step the run is in
  ret,                \* value the step method of the current step returns
  finalResult,        \* value createFinalSummary returns
  locals,             \* the step results execute holds in its local constants
  specializedAgents,  \* specializedAgents[key]: the agent instance held for the key
  agentsCreated,      \* agents getOrCreateAgent has constructed
  inflight,           \* keys of the delegates whose execute has not settled
  started,            \* names of the steps the run has started, in order
  completed,          \* names of the steps of the run that returned
  invoked,            \* keys of the delegates the run has invoked, in order
  conversationHistory,\* conversationHistory[a]: the {role, content} entries of agent a
  delegateResult,     \* how the last delegate execute settled
  outcome,            \* how the execute call of the Manager settled
  cause,              \* the delegate failure the run has seen, if any
  runs,               \* execute calls made on the Manager
  storeLog,           \* the store calls the run has made on the memoryManager, in order
  calls,              \* calls[c]: where an execute call that may overlap another stands
  dash                \* the dashboard server: its state object, its child processes,
                      \* the event it handled last and what it emitted for it

mgrVars == <<variant, mgrMemory, pc, step, ret, finalResult, locals, specializedAgents,
             agentsCreated,
             inflight, started, completed, invoked, conversationHistory,
             delegateResult, outcome, cause, runs, storeLog, calls, dash>>

vars == <<memVars, mgrVars>>

(***************************************************************************)
(* Shapes of the state.                                                    *)
(***************************************************************************)
EmptyMap == [k \in AllKeys |-> Undefined]
\* memoryStore[agentId] is undefined
NoEntry == [has |-> FALSE, map |-> EmptyMap]
\* langchainMemories[agentId] is undefined
NoMemory == [has |-> FALSE, type |-> "none"]
\* fs.existsSync(filePath) is false
NoFile == [kind |-> "absent", body |-> EmptyMap]
\* a file whose content JSON.parse rejects
GarbageFile == [kind |-> "garbage", body |-> EmptyMap]
NoLcFile == [kind |-> "absent", hist |-> "[]"]

\* JSON.stringify of one property value followed by JSON.parse: a NaN is
\* written as null, a property whose value is undefined is left out
JsonValue(v) == CASE v = "NaN" -> JsonNull
                  [] v = Undefined -> Undefined
                  [] OTHER -> v

\* JSON.stringify(this.memoryStore[agentId]): the text written to the file
JSONstringify(map) == [kind |-> "json", body |-> [k \in AllKeys |-> JsonValue(map[k])]]

\* JSON.parse(fileContent) of a file that holds JSON text
JSONparse(file) == file.body

\* the manager i together with the directory, as one value
World(i) == [ms |-> memoryStore[i], lc |-> langchainMemories[i],
             disk |-> disk, lcdisk |-> lcDisk]

\* fs calls can fail only where the manager touches the directory: fail says
\* that the readFileSync, writeFileSync, unlinkSync and readdirSync calls of
\* the operation throw
IoChoices == IF persistToDisk THEN BOOLEAN ELSE {FALSE}

(***************************************************************************)
(* MemoryManager, as functions from the state before to the state after.   *)
(***************************************************************************)
\* chatMemory is no property of a LangChain memory and loadMemoryVariables
\* returns a promise: the stored history if it is an array, else []
getSerializableChatHistory(w, a) ==
  IF w.ms[a].has /\ w.ms[a].map[ConversationKey] \in ArrayValues
    THEN w.ms[a].map[ConversationKey] ELSE "[]"

\* a saveToDisk that writes the agent's file only when there is none yet
saveToDiskOnce(w, a, fail) ==
  IF fail \/ ~w.ms[a].has \/ w.disk[a].kind # "absent"
    THEN w
    ELSE [w EXCEPT !.disk[a] = JSONstringify(w.ms[a].map)]

saveToDisk(w, a, fail) ==
  IF fail \/ ~w.ms[a].has
    THEN w   \* writeFileSync threw (JSON.stringify(undefined) is no string): caught
    ELSE LET w1 == [w EXCEPT !.disk[a] = JSONstringify(w.ms[a].map)]
         IN IF w.lc[a].has
              THEN [w1 EXCEPT !.lcdisk[a] =
                      [kind |-> "json", hist |-> getSerializableChatHistory(w, a)]]
              ELSE w1

\* a store that puts the agent's map aside and keeps the new key only
storeReplacingMap(w, a, k, v, fail) ==
  LET w1 == [w EXCEPT !.ms[a] = [has |-> TRUE, map |-> [EmptyMap EXCEPT ![k] = v]]]
  IN IF persistToDisk THEN saveToDisk(w1, a, fail) ELSE w1

store(w, a, k, v, fail) ==
  LET m == IF w.ms[a].has THEN w.ms[a].map ELSE EmptyMap
      w1 == [w EXCEPT !.ms[a] = [has |-> TRUE, map |-> [m EXCEPT ![k] = v]]]
  IN IF persistToDisk THEN saveToDisk(w1, a, fail) ELSE w1

\* whether loadFromDisk reaches its own store of the conversation history
LoadStoresHistory(w, a, fail) ==
  w.lcdisk[a].kind = "json" /\ ~fail

\* a loadFromDisk that leaves the manager as it is
loadFromDiskNothing(w, a, fail) == w

loadFromDisk(w, a, fail) ==
  LET w1 == IF w.disk[a].kind = "absent" THEN w
            ELSE IF fail \/ w.disk[a].kind = "garbage"
              THEN [w EXCEPT !.ms[a] = [has |-> TRUE, map |-> EmptyMap]]
              ELSE [w EXCEPT !.ms[a] = [has |-> TRUE, map |-> JSONparse(w.disk[a])]]
  IN IF LoadStoresHistory(w, a, fail)
       THEN store(w1, a, ConversationKey, w.lcdisk[a].hist, fail)
       ELSE w1

\* a retrieve and getAll that read the agent's file on every call
LoadsAlways(w, a) == persistToDisk

\* whether retrieve and getAll load the agent's file first
Loads(w, a) == persistToDisk /\ ~w.ms[a].has

\* a retrieve that answers null for what it does not find
retrieveReturningNull(w, a, k, fail) ==
  LET w1 == IF Loads(w, a) THEN loadFromDisk(w, a, fail) ELSE w
  IN [w |-> w1,
      result |-> IF w1.ms[a].has /\ w1.ms[a].map[k] # Undefined
                   THEN w1.ms[a].map[k] ELSE JsonNull]

retrieve(w, a, k, fail) ==
  LET w1 == IF Loads(w, a) THEN loadFromDisk(w, a, fail) ELSE w
  IN [w |-> w1,
      result |-> IF w1.ms[a].has /\ w1.ms[a].map[k] # Undefined
                   THEN w1.ms[a].map[k] ELSE Undefined]

getAll(w, a, fail) ==
  LET w1 == IF Loads(w, a) THEN loadFromDisk(w, a, fail) ELSE w
  IN [w |-> w1,
      result |-> IF w1.ms[a].has THEN w1.ms[a].map ELSE EmptyMap]

\* clear(agentId): the unlinkSync calls are not inside a try
clearAgent(w, a, fail) ==
  IF ~w.ms[a].has THEN [w |-> w, threw |-> FALSE]
  ELSE LET w1 == [w EXCEPT !.ms[a] = NoEntry, !.lc[a] = NoMemory]
       IN IF ~persistToDisk THEN [w |-> w1, threw |-> FALSE]
          ELSE IF w.disk[a].kind # "absent" /\ fail
            THEN [w |-> w1, threw |-> TRUE]
          ELSE LET w2 == [w1 EXCEPT !.disk[a] = NoFile]
               IN IF w.lcdisk[a].kind # "absent" /\ fail
                    THEN [w |-> w2, threw |-> TRUE]
                    ELSE [w |-> [w2 EXCEPT !.lcdisk[a] = NoLcFile],
                          threw |-> FALSE]

\* clear(): readdirSync and the unlinkSync loop are inside one try
clearAll(w, fail) ==
  LET w1 == [w EXCEPT !.ms = [a \in AgentIds |-> NoEntry],
                      !.lc = [a \in AgentIds |-> NoMemory]]
  IN IF ~persistToDisk \/ fail
       THEN w1
       ELSE [w1 EXCEPT !.disk = [a \in AgentIds |-> NoFile],
                       !.lcdisk = [a \in AgentIds |-> NoLcFile]]

\* getLangChainMemory throws where it calls logger.warning, which is no
\* method of the pino logger
WarningThrows(t) == t # "buffer" /\ ~llm

getLangChainMemory(w, a, t, fail) ==
  IF w.lc[a].has THEN [w |-> w, result |-> w.lc[a], threw |-> FALSE]
  ELSE IF WarningThrows(t) THEN [w |-> w, result |-> NoMemory, threw |-> TRUE]
  ELSE LET w1 == retrieve(w, a, ConversationKey, fail).w
           mem == [has |-> TRUE, type |-> t]
           w2 == [w1 EXCEPT !.lc[a] = mem]
       IN [w |-> IF persistToDisk THEN saveToDisk(w2, a, fail) ELSE w2,
           result |-> mem, threw |-> FALSE]

(***************************************************************************)
(* The operations as actions of SpecMem.                                   *)
(***************************************************************************)
Commit(i, w) ==
  /\ memoryStore' = [memoryStore EXCEPT ![i] = w.ms]
  /\ langchainMemories' = [langchainMemories EXCEPT ![i] = w.lc]
  /\ disk' = w.disk
  /\ lcDisk' = w.lcdisk

\* the record kept of the last call
Call(op, i, a, k, v, fail) ==
  [op |-> op, inst |-> i, agent |-> a, key |-> k, value |-> v, fail |-> fail,
   result |-> Undefined, threw |-> FALSE]

Tick ==
  /\ nops < MaxOps
  /\ nops' = nops + 1
  /\ UNCHANGED <<insts, persistToDisk, llm>>
  /\ UNCHANGED mgrVars

Store(i, a, k, v) ==
  \E fail \in IoChoices :
    /\ Tick
    /\ Commit(i, store(World(i), a, k, v, fail))
    /\ last' = Call("store", i, a, k, v, fail)
    /\ everStored' = everStored \cup {<<a, k>>}

Retrieve(i, a, k) ==
  \E fail \in IoChoices :
    LET r == retrieve(World(i), a, k, fail) IN
    /\ Tick
    /\ Commit(i, r.w)
    /\ last' = [Call("retrieve", i, a, k, Undefined, fail) EXCEPT !.result = r.result]
    /\ UNCHANGED everStored

GetAll(i, a) ==
  \E fail \in IoChoices :
    LET r == getAll(World(i), a, fail) IN
    /\ Tick
    /\ Commit(i, r.w)
    /\ last' = Call("getAll", i, a, "-", Undefined, fail)
    /\ UNCHANGED everStored

ClearAgent(i, a) ==
  \E fail \in IoChoices :
    LET r == clearAgent(World(i), a, fail) IN
    /\ Tick
    /\ Commit(i, r.w)
    /\ last' = [Call("clear", i, a, "-", Undefined, fail) EXCEPT !.threw = r.threw]
    /\ UNCHANGED everStored

ClearAll(i) ==
  \E fail \in IoChoices :
    /\ Tick
    /\ Commit(i, clearAll(World(i), fail))
    /\ last' = Call("clearAll", i, "-", "-", Undefined, fail)
    /\ UNCHANGED everStored

GetLangChainMemory(i, a, t) ==
  \E fail \in IoChoices :
    LET r == getLangChainMemory(World(i), a, t, fail) IN
    /\ Tick
    /\ Commit(i, r.w)
    /\ last' = [Call("getLangChainMemory", i, a, "-", t, fail) EXCEPT !.threw = r.threw]
    /\ UNCHANGED everStored

\* the process ends and a new one constructs its MemoryManager on the directory
NewManager(i) ==
  /\ Tick
  /\ memoryStore' = [memoryStore EXCEPT ![i] = [a \in AgentIds |-> NoEntry]]
  /\ langchainMemories' = [langchainMemories EXCEPT ![i] = [a \in AgentIds |-> NoMemory]]
  /\ last' = Call("new", i, "-", "-", Undefined, FALSE)
  /\ UNCHANGED <<disk, lcDisk, everStored>>

\* something else leaves a file of the directory without valid JSON in it
DamageFile(a) ==
  /\ Tick
  /\ persistToDisk
  /\ disk[a].kind = "json"
  /\ disk' = [disk EXCEPT ![a] = GarbageFile]
  /\ last' = Call("damage", 1, a, "-", Undefined, FALSE)
  /\ UNCHANGED <<memoryStore, langchainMemories, lcDisk, everStored>>

(***************************************************************************)
(* ManagerAgent: the pipeline and the values that flow through it.         *)
(***************************************************************************)
\* this.id of the Manager, the agent id of its memory scope
ManagerId == "a1"
Prompts == {"p1"}
Variants == {"plain", "langchain"}

\* the steps of execute in the order of its statements: the method, the key
\* and class given to getOrCreateAgent, the text of the error thrown on a
\* failed delegate, the field of the delegate's result that is returned and
\* the key the result is saved under
Pipeline ==
  << [name |-> "analyzeRequirements", agentKey |-> "-", class |-> "-",
      label |-> "-", field |-> "-", key |-> "requirements"],
     [name |-> "designArchitecture", agentKey |-> "architecture_designer",
      class |-> "ArchitectureDesignerAgent", label |-> "Architecture design",
      field |-> "design", key |-> "architecture"],
     [name |-> "researchLibraries", agentKey |-> "library_researcher",
      class |-> "LibraryResearcherAgent", label |-> "Library research",
      field |-> "libraries", key |-> "libraries"],
     [name |-> "planSoftware", agentKey |-> "software_planner",
      class |-> "SoftwarePlannerAgent", label |-> "Software planning",
      field |-> "plan", key |-> "software_plan"],
     [name |-> "generateCode", agentKey |-> "software_programmer",
      class |-> "SoftwareProgrammerAgent", label |-> "Code generation",
      field |-> "code", key |-> "code_result"],
     [name |-> "debugCode", agentKey |-> "exception_debugger",
      class |-> "ExceptionDebuggerAgent", label |-> "Debugging",
      field |-> "debug_result", key |-> "debug_result"],
     [name |-> "analyzeDependencies", agentKey |-> "dependency_analyzer",
      class |-> "DependencyAnalyzerAgent", label |-> "Dependency analysis",
      field |-> "analysis", key |-> "dependency_analysis"],
     [name |-> "createFinalSummary", agentKey |-> "-", class |-> "-",
      label |-> "-", field |-> "-", key |-> "-"] >>

StepNames == [i \in DOMAIN Pipeline |-> Pipeline[i].name]
LastStep == Len(Pipeline)
DelegateSteps == {i \in DOMAIN Pipeline : Pipeline[i].agentKey # "-"}
AgentKeys == {Pipeline[i].agentKey : i \in DelegateSteps}
Agents == {"manager"} \cup AgentKeys

\* a pipeline that leaves out every other step
NextStepSkipping(i) == IF i + 2 <= LastStep THEN i + 2 ELSE LastStep

\* the statements of execute follow one another
NextStep(i) == i + 1

\* the keys execute saves under, in the order of its saveToMemory statements
SavedKeys == <<"original_prompt">> \o [i \in 1..(LastStep - 1) |-> Pipeline[i].key]

EmptyObject == "{}"
\* messages of the errors a delegate catches; new Error() has the message ""
Messages == {"m1", ""}
\* result fields a delegate may leave out of a successful result
OptionalFields == {"design", "code"}
Payloads(i) == IF Pipeline[i].field \in OptionalFields
                 THEN {Pipeline[i].field, Undefined}
                 ELSE {Pipeline[i].field}
\* the ArchitectureDesignerAgent that runs its LangChain agent executor; the
\* Manager of the LangChain source constructs it with the LangChain arguments
LangChainDesigner(i) ==
  variant = "langchain" /\ Pipeline[i].class = "ArchitectureDesignerAgent"

\* result.output of the agent executor: JSON of a design, or text that is no
\* JSON
ExecutorOutputs == {"design json", "not json"}

\* the design the LangChain designer takes from the output, or has from its
\* design_architecture tool when the output does not parse
DesignOf(output) == IF output = "design json" THEN "design" ELSE "tool design"

\* what happens inside the try block of a delegate's execute
InnerOutcomes(i) ==
  (IF LangChainDesigner(i)
     THEN {[kind |-> "ok", payload |-> DesignOf(o), m |-> "", output |-> o] :
             o \in ExecutorOutputs}
     ELSE {[kind |-> "ok", payload |-> p, m |-> "", output |-> "-"] : p \in Payloads(i)})
  \cup {[kind |-> "throws", payload |-> Undefined, m |-> m, output |-> "-"] : m \in Messages}
\* what a LangChain tool's invoke gives back
ToolOutcomes == {"json", "text", "throws"}

NoError == [name |-> "-", message |-> <<>>]
Error(message) == [name |-> "Error", message |-> message]
\* calling logger.warning, which the pino logger does not have
WarningTypeError == [name |-> "TypeError", message |-> <<"logger.warning is not a function">>]
\* reading .substring of a summary that is no string
SummaryTypeError == [name |-> "TypeError", message |-> <<"Cannot read properties of undefined">>]

NoResult == [kind |-> "none", success |-> FALSE, payload |-> Undefined, error |-> NoError,
             output |-> "-"]

\* execute of a specialized agent: the statements before its try block, then
\* the try block with its catch
AgentExecute(class, code, inner) ==
  IF class = "ExceptionDebuggerAgent" /\ code \in {Undefined, EmptyObject}
    THEN [kind |-> "rejected", success |-> FALSE, payload |-> Undefined,
          error |-> WarningTypeError, output |-> "-"]
  ELSE IF inner.kind = "ok"
    THEN [kind |-> "resolved", success |-> TRUE, payload |-> inner.payload,
          error |-> NoError, output |-> inner.output]
  ELSE [kind |-> "resolved", success |-> FALSE, payload |-> Undefined,
        error |-> Error(<<inner.m>>), output |-> "-"]

\* a step method that never looks at result.success
NotSuccessIgnored(result) == FALSE

\* if (!result.success)
NotSuccess(result) == ~result.success

\* result.error?.message || 'Unknown error'
errorMsg(result) == IF result.error.message = <<>> \/ result.error.message = <<"">>
                      THEN <<"Unknown error">>
                      ELSE result.error.message

\* a step method that leaves the delegate's message out of its Error
ErrorMessageWithoutCause(label, result) == <<label, " failed: ", "Unknown error">>

\* the message of the Error a step method throws
ErrorMessage(label, result) == <<label, " failed: ">> \o errorMsg(result)

\* (result.field as Record<string, unknown>) || {}
OrEmpty(v) == IF v = Undefined THEN EmptyObject ELSE v

\* whether the text m occurs in a message made of the given parts
Contains(message, m) == m = "" \/ \E n \in DOMAIN message : message[n] = m

NoSummary == [kind |-> "none", summary |-> Undefined, text |-> <<>>,
              parts |-> [k \in PipelineKeys |-> Undefined]]

Pending == [state |-> "pending", success |-> FALSE, error |-> NoError,
            message |-> "-", fields |-> {}, result |-> NoSummary]
NotCalled == [Pending EXCEPT !.state = "none"]
\* a catch block that leaves execute's promise pending
FailureLeftPending(error) == [Pending EXCEPT !.error = error]

\* the value the catch block of execute returns
Failure(error) == [state |-> "resolved", success |-> FALSE, error |-> error,
                   message |-> "Multi-agent process failed",
                   fields |-> {"success", "error", "message"}, result |-> NoSummary]
\* the value execute returns at the end of its try block
Success(result) == [state |-> "resolved", success |-> TRUE, error |-> NoError,
                    message |-> "Multi-agent process completed successfully",
                    fields |-> {"success", "result", "message"}, result |-> result]

NoCause == [step |-> 0, kind |-> "none", m |-> ""]

\* a saveToMemory that leaves a key alone once the scope holds a value for it
saveToMemoryKeepingOld(w, key, value) ==
  IF mgrMemory /\ retrieve(w, ManagerId, key, FALSE).result = Undefined
    THEN store(w, ManagerId, key, value, FALSE)
    ELSE w

\* BaseAgent.saveToMemory and retrieveFromMemory of the Manager
saveToMemory(w, key, value) ==
  IF mgrMemory THEN store(w, ManagerId, key, value, FALSE) ELSE w

\* a saveToMemory that calls store twice
storeCallsTwice(log, key, value) ==
  IF mgrMemory
    THEN log \o << [agent |-> ManagerId, key |-> key, value |-> value],
                   [agent |-> ManagerId, key |-> key, value |-> value] >>
    ELSE log

\* the calls of this.memoryManager.store a saveToMemory adds to those made
storeCalls(log, key, value) ==
  IF mgrMemory
    THEN Append(log, [agent |-> ManagerId, key |-> key, value |-> value])
    ELSE log

\* a retrieveFromMemory that asks for the scope of another agent's id
retrieveFromMemoryOfOtherAgent(w, key) ==
  IF mgrMemory THEN retrieve(w, "a2", key, FALSE)
  ELSE [w |-> w, result |-> Undefined]

retrieveFromMemory(w, key) ==
  IF mgrMemory THEN retrieve(w, ManagerId, key, FALSE)
  ELSE [w |-> w, result |-> Undefined]

\* the keys createFinalSummary reads, in the order it reads them
SummaryKeys == <<"architecture", "libraries", "software_plan", "code_result",
                 "debug_result", "dependency_analysis">>

RECURSIVE retrieveAll(_, _)
\* the retrieveFromMemory calls for the first n of the SummaryKeys
retrieveAll(w, n) ==
  IF n = 0 THEN [w |-> w, parts |-> [k \in PipelineKeys |-> Undefined]]
  ELSE LET before == retrieveAll(w, n - 1)
           r == retrieveFromMemory(before.w, SummaryKeys[n])
       IN [w |-> r.w,
           parts |-> [before.parts EXCEPT ![SummaryKeys[n]] = OrEmpty(r.result)]]

\* what the summary says of a stage that left the field out
SummaryDefaults == [architecture |-> "Not specified", libraries |-> "",
                    software_plan |-> "Not specified", debug_result |-> "Unknown",
                    dependency_analysis |-> "Unknown"]

\* architecture.summary || 'Not specified' and the like: what the summary
\* string says of the stage result v retrieved under key k
Fragment(k, v) == IF v = EmptyObject THEN SummaryDefaults[k] ELSE v

\* a createFinalSummary whose own result has no summary string
BasicSummaryWithoutSummary(parts) ==
  [kind |-> "basic", summary |-> Undefined, parts |-> parts, text |-> <<>>]

\* the summary createFinalSummary builds itself from what it retrieved; text
\* holds the fragments its summary string is put together from
BasicSummary(parts) ==
  [kind |-> "basic", summary |-> "basic summary", parts |-> parts,
   text |-> [n \in 1..3 |-> Fragment(SummaryKeys[n], parts[SummaryKeys[n]])]
            \o <<Fragment("debug_result", parts["debug_result"]),
                 Fragment("dependency_analysis", parts["dependency_analysis"])>>]

\* what createFinalSummary makes of the answer of the create_final_summary tool
ToolSummary(t, basic) ==
  CASE t = "json" -> [kind |-> "json", summary |-> "llm summary",
                      text |-> <<"llm summary">>, parts |-> NoSummary.parts]
    [] t = "json without summary" ->
         [kind |-> "json", summary |-> Undefined, text |-> <<>>, parts |-> NoSummary.parts]
    [] t = "text" -> [basic EXCEPT !.kind = "text", !.summary = "llm text",
                                   !.text = <<"llm text">>]
    [] OTHER -> basic

\* the contents of the messages a specialized agent adds: its fixed system
\* message, the prompt its step method calls it with, its closing summary
SystemMessage == "system message"
StepPrompt(n) == Pipeline[n].name
AssistantSummary == "summary"

\* an addToConversation that puts the new entry in front
addToConversationAtFront(history, role, content) ==
  <<[role |-> role, content |-> content]>> \o history

\* this.conversationHistory.push({ role, content })
addToConversation(history, role, content) ==
  Append(history, [role |-> role, content |-> content])

\* the value of specializedAgents[key] before an agent is put there
NoAgent == 0

\* a getOrCreateAgent that constructs an agent on every call
getOrCreateAgentAlwaysNew(agents, created, key) ==
  [agents |-> [agents EXCEPT ![key] = created + 1], created |-> created + 1, isNew |-> TRUE]

\* getOrCreateAgent(key, Class) on the agents held and the number constructed
\* so far: the agent is constructed only if the key holds none; an agent is
\* known by its number, as its id is a fresh UUID
getOrCreateAgent(agents, created, key) ==
  IF agents[key] = NoAgent
    THEN [agents |-> [agents EXCEPT ![key] = created + 1], created |-> created + 1,
          isNew |-> TRUE]
    ELSE [agents |-> agents, created |-> created, isNew |-> FALSE]

\* the state of a Manager on which execute has not been called
\* the execute calls made on one Manager without awaiting the one before
CallIds == {1, 2}

\* what the steps of call c return: values that come from the call's prompt
CallValue(c) == IF c = 1 THEN "of call 1" ELSE "of call 2"

\* a call not made yet
NoCall == [at |-> "idle", step |-> 0, architecture |-> Undefined,
           parts |-> [k \in PipelineKeys |-> Undefined], text |-> <<>>]

\* the clients connected to the dashboard server
Sockets == {"s1", "s2"}
Languages == {"python", "javascript"}

\* the state object of the dashboard server; logs is the length of state.logs
StateStart == [currentLanguage |-> "python", activeFile |-> "null", logs |-> 0,
               graphData |-> "empty", isRunning |-> FALSE]

\* the dashboard server after it has started
DashStart == [up |-> TRUE, state |-> StateStart, children |-> {}, spawned |-> 0,
              request |-> [socket |-> "-", event |-> "-"], emitted |-> {}]

MgrIdle ==
  /\ pc = "idle"
  /\ step = 0
  /\ ret = Undefined
  /\ finalResult = NoSummary
  /\ locals = [k \in PipelineKeys |-> Undefined]
  /\ specializedAgents = [key \in AgentKeys |-> NoAgent]
  /\ agentsCreated = 0
  /\ inflight = {}
  /\ started = <<>>
  /\ completed = <<>>
  /\ invoked = <<>>
  /\ conversationHistory = [a \in Agents |-> <<>>]
  /\ delegateResult = NoResult
  /\ outcome = NotCalled
  /\ cause = NoCause
  /\ runs = 0
  /\ storeLog = <<>>
  /\ calls = [c \in CallIds |-> NoCall]
  /\ dash = DashStart

InitMem ==
  /\ insts = {1}
  /\ variant = "plain"
  /\ mgrMemory = TRUE
  /\ MgrIdle
  /\ persistToDisk \in BOOLEAN
  /\ llm \in BOOLEAN
  /\ memoryStore = [i \in Insts |-> [a \in AgentIds |-> NoEntry]]
  /\ langchainMemories = [i \in Insts |-> [a \in AgentIds |-> NoMemory]]
  /\ disk = [a \in AgentIds |-> NoFile]
  /\ lcDisk = [a \in AgentIds |-> NoLcFile]
  /\ last = Call("none", 1, "-", "-", Undefined, FALSE)
  /\ everStored = {}
  /\ nops = 0

NextMem ==
  \/ \E i \in insts, a \in AgentIds, k \in ClientKeys, v \in StoreValues : Store(i, a, k, v)
  \/ \E i \in insts, a \in AgentIds, k \in ClientKeys : Retrieve(i, a, k)
  \/ \E i \in insts, a \in AgentIds : GetAll(i, a)
  \/ \E i \in insts, a \in AgentIds : ClearAgent(i, a)
  \/ \E i \in insts : ClearAll(i)
  \/ \E i \in insts, a \in AgentIds, t \in MemoryTypes : GetLangChainMemory(i, a, t)
  \/ \E i \in insts : NewManager(i)
  \/ \E a \in AgentIds : DamageFile(a)

SpecMem == InitMem /\ [][NextMem]_vars

(***************************************************************************)
(* One MemoryManager with persistence and the other processes that write   *)
(* to its directory: every run of the program constructs a MemoryManager   *)
(* on the directory it is given.                                           *)
(***************************************************************************)
\* the file another process's MemoryManager writes for an agent
OtherFile == JSONstringify([EmptyMap EXCEPT !["k1"] = "v2"])

\* another process stores to the agent's scope: the file is written, which
\* is no operation of this manager
OtherProcessWrites(a) ==
  /\ persistToDisk
  /\ disk[a] # OtherFile
  /\ disk' = [disk EXCEPT ![a] = OtherFile]
  /\ UNCHANGED <<insts, persistToDisk, llm, memoryStore, langchainMemories, lcDisk,
                 last, everStored, nops>>
  /\ UNCHANGED mgrVars

InitDir ==
  /\ InitMem
  /\ persistToDisk
  /\ ~llm

NextDir ==
  \/ \E a \in AgentIds, k \in ClientKeys, v \in StoreValues : Store(1, a, k, v)
  \/ \E a \in AgentIds, k \in ClientKeys : Retrieve(1, a, k)
  \/ \E a \in AgentIds : GetAll(1, a)
  \/ \E a \in AgentIds : ClearAgent(1, a)
  \/ ClearAll(1)
  \/ \E a \in AgentIds : DamageFile(a)
  \/ \E a \in AgentIds : OtherProcessWrites(a)

SpecDir == InitDir /\ [][NextDir]_vars

(***************************************************************************)
(* Two MemoryManager instances with persistence on one directory, both     *)
(* working on agent a1; a restart gives a fresh instance.  The directory   *)
(* answers every fs call.                                                  *)
(***************************************************************************)
SharedAgent == "a1"

InitTwo ==
  /\ insts = Insts
  /\ variant = "plain"
  /\ mgrMemory = TRUE
  /\ MgrIdle
  /\ persistToDisk = TRUE
  /\ llm = FALSE
  /\ memoryStore = [i \in Insts |-> [a \in AgentIds |-> NoEntry]]
  /\ langchainMemories = [i \in Insts |-> [a \in AgentIds |-> NoMemory]]
  /\ disk = [a \in AgentIds |-> NoFile]
  /\ lcDisk = [a \in AgentIds |-> NoLcFile]
  /\ last = Call("none", 1, "-", "-", Undefined, FALSE)
  /\ everStored = {}
  /\ nops = 0

NextTwo ==
  \/ \E i \in insts, k \in ClientKeys, v \in StoreValues :
       Store(i, SharedAgent, k, v) /\ ~last'.fail
  \/ \E i \in insts, k \in ClientKeys : Retrieve(i, SharedAgent, k) /\ ~last'.fail
  \/ \E i \in insts : NewManager(i)

SpecTwo == InitTwo /\ [][NextTwo]_vars

(***************************************************************************)
(* ManagerAgent.execute, one action for each stretch of code between two   *)
(* awaits.  The MemoryManager of the Manager is instance 1; its directory  *)
(* answers every fs call.                                                  *)
(***************************************************************************)
MgrFrame == UNCHANGED <<insts, persistToDisk, llm, last, everStored, nops,
                        variant, mgrMemory, calls, dash>>

MemoryUntouched == UNCHANGED <<memoryStore, langchainMemories, disk, lcDisk>>

\* execute up to its first await: analyzeRequirements is called
Execute(prompt) ==
  /\ pc \in {"idle", "settled"}
  /\ runs < MaxRuns
  /\ runs' = runs + 1
  /\ Commit(1, saveToMemory(World(1), "original_prompt", prompt))
  /\ storeLog' = storeCalls(<<>>, "original_prompt", prompt)
  /\ conversationHistory' =
       [conversationHistory EXCEPT !["manager"] = addToConversation(@, "user", prompt)]
  /\ step' = 1
  /\ started' = <<Pipeline[1].name>>
  /\ pc' = "analyze"
  /\ ret' = Undefined
  /\ finalResult' = NoSummary
  /\ locals' = [k \in PipelineKeys |-> Undefined]
  /\ inflight' = {}
  /\ completed' = <<>>
  /\ invoked' = <<>>
  /\ delegateResult' = NoResult
  /\ outcome' = Pending
  /\ cause' = NoCause
  /\ UNCHANGED <<specializedAgents, agentsCreated>>
  /\ MgrFrame

\* analyzeRequirements returns: the plain source has its fixed answer, the
\* LangChain source asks its tool and falls back when that fails
AnalyzeReturns ==
  /\ pc = "analyze"
  /\ \E t \in IF variant = "plain" THEN {"none"} ELSE ToolOutcomes :
       ret' = CASE t = "none" -> "basic requirements"
                [] t = "json" -> "llm requirements"
                [] OTHER -> "fallback requirements"
  /\ completed' = Append(completed, Pipeline[step].name)
  /\ pc' = "return"
  /\ MemoryUntouched
  /\ UNCHANGED <<step, finalResult, locals, specializedAgents, agentsCreated, inflight, started,
                 invoked, conversationHistory, delegateResult, outcome, cause, runs, storeLog>>
  /\ MgrFrame

\* execute after a step method returned: the result is saved
Save ==
  /\ pc = "return"
  /\ step < LastStep
  /\ Commit(1, saveToMemory(World(1), Pipeline[step].key, ret))
  /\ storeLog' = storeCalls(storeLog, Pipeline[step].key, ret)
  /\ locals' = [locals EXCEPT ![Pipeline[step].key] = ret]
  /\ pc' = "next"
  /\ UNCHANGED <<step, ret, finalResult, specializedAgents, agentsCreated, inflight,
                 started, completed,
                 invoked, conversationHistory, delegateResult, outcome, cause, runs>>
  /\ MgrFrame

\* the next step method up to its await of the delegate's execute, and the
\* delegate's execute up to its try block
StartDelegate ==
  LET n == NextStep(step)
      agent == getOrCreateAgent(specializedAgents, agentsCreated, Pipeline[n].agentKey) IN
  /\ pc = "next"
  /\ n \in DelegateSteps
  /\ step' = n
  /\ started' = Append(started, Pipeline[n].name)
  /\ specializedAgents' = agent.agents
  /\ agentsCreated' = agent.created
  /\ IF Pipeline[n].name = "analyzeDependencies"
       THEN Commit(1, retrieveFromMemory(World(1), "architecture").w)
       ELSE MemoryUntouched
  /\ invoked' = Append(invoked, Pipeline[n].agentKey)
  /\ inflight' = inflight \cup {Pipeline[n].agentKey}
  /\ conversationHistory' =
       [conversationHistory EXCEPT
          ![Pipeline[n].agentKey] =
             LET history == IF agent.isNew THEN <<>> ELSE @
             IN IF LangChainDesigner(n)
                  THEN history
                  ELSE addToConversation(addToConversation(history, "system", SystemMessage),
                                         "user", StepPrompt(n))]
  /\ pc' = "delegate"
  /\ UNCHANGED <<ret, finalResult, locals, completed, delegateResult, outcome, cause,
                 runs, storeLog>>
  /\ MgrFrame

\* the delegate's execute settles and the step method runs on from its await
DelegateSettles ==
  /\ pc = "delegate"
  /\ \E inner \in InnerOutcomes(step) :
       LET code == IF Pipeline[step].name = "debugCode"
                     THEN locals["code_result"] ELSE Undefined
           result == AgentExecute(Pipeline[step].class, code, inner)
       IN /\ delegateResult' = result
          /\ conversationHistory' =
               IF result.success
                 THEN [conversationHistory EXCEPT
                         ![Pipeline[step].agentKey] =
                           IF LangChainDesigner(step)
                             THEN addToConversation(
                                    addToConversation(@, "user", StepPrompt(step)),
                                    "assistant", result.output)
                             ELSE addToConversation(@, "assistant", AssistantSummary)]
                 ELSE conversationHistory
          /\ cause' = IF result.kind = "rejected"
                        THEN [step |-> step, kind |-> "reject", m |-> result.error.message[1]]
                      ELSE IF ~result.success
                        THEN [step |-> step, kind |-> "false", m |-> result.error.message[1]]
                      ELSE cause
          /\ IF result.kind = "rejected"
               THEN /\ outcome' = Failure(result.error)
                    /\ pc' = "settled"
                    /\ UNCHANGED <<ret, completed>>
             ELSE IF NotSuccess(result)
               THEN /\ outcome' = Failure(Error(ErrorMessage(Pipeline[step].label, result)))
                    /\ pc' = "settled"
                    /\ UNCHANGED <<ret, completed>>
             ELSE IF Pipeline[step].name = "researchLibraries" /\ variant = "langchain"
               THEN /\ pc' = "process"
                    /\ ret' = OrEmpty(result.payload)
                    /\ UNCHANGED <<outcome, completed>>
             ELSE /\ pc' = "return"
                  /\ ret' = OrEmpty(result.payload)
                  /\ completed' = Append(completed, Pipeline[step].name)
                  /\ UNCHANGED outcome
  /\ inflight' = inflight \ {Pipeline[step].agentKey}
  /\ MemoryUntouched
  /\ UNCHANGED <<step, finalResult, locals, specializedAgents, agentsCreated, started, invoked,
                 runs, storeLog>>
  /\ MgrFrame

\* researchLibraries of the LangChain source: the process_agent_result tool
\* answers
ProcessReturns ==
  /\ pc = "process"
  /\ \E t \in ToolOutcomes :
       ret' = IF t = "json" THEN "processed libraries" ELSE ret
  /\ completed' = Append(completed, Pipeline[step].name)
  /\ pc' = "return"
  /\ MemoryUntouched
  /\ UNCHANGED <<step, finalResult, locals, specializedAgents, agentsCreated, inflight, started,
                 invoked, conversationHistory, delegateResult, outcome, cause, runs, storeLog>>
  /\ MgrFrame

\* createFinalSummary: the plain source returns its summary, the LangChain
\* source asks its tool first
StartSummary ==
  LET n == NextStep(step)
      r == retrieveAll(World(1), Len(SummaryKeys)) IN
  /\ pc = "next"
  /\ n \notin DelegateSteps
  /\ step' = n
  /\ started' = Append(started, Pipeline[n].name)
  /\ Commit(1, r.w)
  /\ finalResult' = BasicSummary(r.parts)
  /\ IF variant = "plain"
       THEN /\ pc' = "return"
            /\ completed' = Append(completed, Pipeline[n].name)
       ELSE /\ pc' = "summary"
            /\ UNCHANGED completed
  /\ UNCHANGED <<ret, locals, specializedAgents, agentsCreated, inflight, invoked,
                 conversationHistory,
                 delegateResult, outcome, cause, runs, storeLog>>
  /\ MgrFrame

\* createFinalSummary of the LangChain source: the create_final_summary tool
\* answers
SummaryReturns ==
  /\ pc = "summary"
  /\ \E t \in ToolOutcomes \cup {"json without summary"} :
       finalResult' = ToolSummary(t, finalResult)
  /\ completed' = Append(completed, Pipeline[step].name)
  /\ pc' = "return"
  /\ MemoryUntouched
  /\ UNCHANGED <<step, ret, locals, specializedAgents, agentsCreated, inflight, started, invoked,
                 conversationHistory, delegateResult, outcome, cause, runs, storeLog>>
  /\ MgrFrame

\* the end of execute: the summary is logged and the result returned
Finish ==
  /\ pc = "return"
  /\ step = LastStep
  /\ outcome' = IF finalResult.summary = Undefined
                  THEN Failure(SummaryTypeError)
                  ELSE Success(finalResult)
  /\ pc' = "settled"
  /\ MemoryUntouched
  /\ UNCHANGED <<step, ret, finalResult, locals, specializedAgents, agentsCreated,
                 inflight, started,
                 completed, invoked, conversationHistory, delegateResult, cause, runs,
                 storeLog>>
  /\ MgrFrame

InitMgr ==
  /\ insts = {1}
  /\ persistToDisk \in BOOLEAN
  /\ llm = FALSE
  /\ memoryStore = [i \in Insts |-> [a \in AgentIds |-> NoEntry]]
  /\ langchainMemories = [i \in Insts |-> [a \in AgentIds |-> NoMemory]]
  /\ disk = [a \in AgentIds |-> NoFile]
  /\ lcDisk = [a \in AgentIds |-> NoLcFile]
  /\ last = Call("none", 1, "-", "-", Undefined, FALSE)
  /\ everStored = {}
  /\ nops = 0
  /\ variant \in Variants
  /\ mgrMemory \in BOOLEAN
  /\ MgrIdle

NextMgr ==
  \/ \E prompt \in Prompts : Execute(prompt)
  \/ AnalyzeReturns
  \/ Save
  \/ StartDelegate
  \/ DelegateSettles
  \/ ProcessReturns
  \/ StartSummary
  \/ SummaryReturns
  \/ Finish

SpecMgr == InitMgr /\ [][NextMgr]_vars

\* createFinalSummary is due: execute has saved the result of the last
\* delegate step
SummaryDue == pc = "next" /\ NextStep(step) \notin DelegateSteps

\* weak fairness of StartSummary, with its enabling condition written out
SummaryStartsFairly == []<>~SummaryDue \/ []<><<StartSummary>>_vars

\* the run under the event loop: code that can run on does, and every
\* delegate's execute settles.  The plain source's analyzeRequirements awaits
\* nothing outside the Manager; the tools of the LangChain source await the
\* Manager's language model, about which nothing is assumed here.
FairMgr ==
  /\ WF_vars(Save)
  /\ WF_vars(StartDelegate)
  /\ WF_vars(DelegateSettles)
  /\ SummaryStartsFairly
  /\ WF_vars(Finish)
  /\ WF_vars(variant = "plain" /\ AnalyzeReturns)

SpecMgrFair == SpecMgr /\ FairMgr

(***************************************************************************)
(* Two execute calls on one Manager, the second made while the first is    *)
(* suspended at an await.  Each action is the code of one call between two *)
(* of its awaits; the single thread runs it without interruption.          *)
(***************************************************************************)
CallFrame ==
  /\ UNCHANGED <<insts, persistToDisk, llm, last, everStored, nops, variant, mgrMemory,
                 dash>>
  /\ UNCHANGED <<pc, step, ret, finalResult, locals, specializedAgents, agentsCreated,
                 inflight, started, completed, invoked, conversationHistory,
                 delegateResult, outcome, cause, runs, storeLog>>

\* execute up to its first await
CallExecute(c) ==
  /\ calls[c].at = "idle"
  /\ Commit(1, saveToMemory(World(1), "original_prompt", CallValue(c)))
  /\ calls' = [calls EXCEPT ![c] = [@ EXCEPT !.at = "await", !.step = 1]]
  /\ CallFrame

\* the awaited step method returns or throws: execute saves the result and
\* runs on into the next step method, up to that method's await;
\* analyzeDependencies and createFinalSummary begin by reading the memory
CallResumes(c, ok) ==
  LET n == calls[c].step
      m == NextStep(n)
      w1 == saveToMemory(World(1), Pipeline[n].key, CallValue(c))
      arch == retrieveFromMemory(w1, "architecture")
      all == retrieveAll(w1, Len(SummaryKeys)) IN
  /\ calls[c].at = "await"
  /\ ok \/ n \in DelegateSteps
  /\ IF ~ok
       THEN /\ calls' = [calls EXCEPT ![c] = [@ EXCEPT !.at = "failed"]]
            /\ MemoryUntouched
     ELSE IF n = LastStep
       THEN /\ calls' = [calls EXCEPT ![c] = [@ EXCEPT !.at = "done"]]
            /\ MemoryUntouched
     ELSE IF Pipeline[m].name = "analyzeDependencies"
       THEN /\ calls' = [calls EXCEPT ![c] =
                           [@ EXCEPT !.step = m, !.architecture = OrEmpty(arch.result)]]
            /\ Commit(1, arch.w)
     ELSE IF m = LastStep
       THEN /\ calls' = [calls EXCEPT ![c] =
                           [@ EXCEPT !.step = m, !.parts = all.parts,
                                     !.text = BasicSummary(all.parts).text]]
            /\ Commit(1, all.w)
     ELSE /\ calls' = [calls EXCEPT ![c] = [@ EXCEPT !.step = m]]
          /\ Commit(1, w1)
  /\ CallFrame

InitOverlap ==
  /\ insts = {1}
  /\ persistToDisk \in BOOLEAN
  /\ llm = FALSE
  /\ memoryStore = [i \in Insts |-> [a \in AgentIds |-> NoEntry]]
  /\ langchainMemories = [i \in Insts |-> [a \in AgentIds |-> NoMemory]]
  /\ disk = [a \in AgentIds |-> NoFile]
  /\ lcDisk = [a \in AgentIds |-> NoLcFile]
  /\ last = Call("none", 1, "-", "-", Undefined, FALSE)
  /\ everStored = {}
  /\ nops = 0
  /\ variant \in Variants
  /\ mgrMemory = TRUE
  /\ MgrIdle

NextOverlap ==
  \/ \E c \in CallIds : CallExecute(c)
  \/ \E c \in CallIds, ok \in BOOLEAN : CallResumes(c, ok)

SpecOverlap == InitOverlap /\ [][NextOverlap]_vars

(***************************************************************************)
(* The dashboard server: one action for each handler of a socket event or  *)
(* of an event of a child process.                                         *)
(***************************************************************************)
DashFrame ==
  /\ UNCHANGED memVars
  /\ UNCHANGED <<variant, mgrMemory, pc, step, ret, finalResult, locals, specializedAgents,
                 agentsCreated, inflight, started, completed, invoked, conversationHistory,
                 delegateResult, outcome, cause, runs, storeLog, calls>>

\* an emission of the server: to one socket (socket.emit) or to all (io.emit)
Emit(to, event, text) == [to |-> to, event |-> event, text |-> text]

\* a runAgent handler that does not look at state.isRunning
AlreadyRunningIgnored(st) == FALSE

\* the test the runAgent handler begins with
AlreadyRunning(st) == st.isRunning

\* what spawn does: it returns a child process, it returns a child that
\* could not be started (its error event follows), or it throws
SpawnOutcomes == {"process", "failed", "throws"}

\* socket.on('runAgent')
RunAgent(s) ==
  /\ dash.up
  /\ \E o \in SpawnOutcomes :
       LET reset == [dash.state EXCEPT !.isRunning = TRUE, !.logs = 0,
                                       !.graphData = "empty", !.activeFile = "null"]
           request == [socket |-> s, event |-> "runAgent"]
       IN IF AlreadyRunning(dash.state)
            THEN dash' = [dash EXCEPT !.request = request,
                                      !.emitted = {Emit(s, "error", "Agent is already running")}]
          ELSE IF o = "throws"
            THEN dash' = [dash EXCEPT
                            !.request = request,
                            !.state = [reset EXCEPT !.isRunning = FALSE, !.logs = 1],
                            !.emitted = {Emit("all", "state", "-"), Emit("all", "error", "-")}]
          ELSE /\ dash.spawned < MaxRuns
               /\ dash' = [dash EXCEPT
                             !.request = request,
                             !.state = reset,
                             !.spawned = @ + 1,
                             !.children = @ \cup {[id |-> dash.spawned + 1, kind |-> o]},
                             !.emitted = {Emit("all", "state", "-")}]
  /\ DashFrame

\* agentProcess.stdout.on('data') and stderr.on('data'): the text is logged,
\* and a component graph in it replaces state.graphData
ChildOutput(p, graph) ==
  /\ dash.up
  /\ p \in dash.children
  /\ p.kind = "process"
  /\ dash.state.logs < MaxOps
  /\ dash' = [dash EXCEPT
                !.request = [socket |-> "-", event |-> "data"],
                !.state = [@ EXCEPT !.logs = @ + 1,
                                    !.graphData = IF graph THEN "graph" ELSE @],
                !.emitted = {Emit("all", "log", "-")}]
  /\ DashFrame

\* agentProcess.on('close')
ChildClose(p) ==
  /\ dash.up
  /\ p \in dash.children
  /\ p.kind = "process"
  /\ dash' = [dash EXCEPT
                !.request = [socket |-> "-", event |-> "close"],
                !.children = @ \ {p},
                !.state = [@ EXCEPT !.isRunning = FALSE],
                !.emitted = {Emit("all", "agentComplete", "-"), Emit("all", "state", "-")}]
  /\ DashFrame

\* the error event of a child that could not be started: no handler is
\* registered for it, so the event is thrown and the server process ends
ChildError(p) ==
  /\ dash.up
  /\ p \in dash.children
  /\ p.kind = "failed"
  /\ dash' = [dash EXCEPT !.up = FALSE,
                          !.request = [socket |-> "-", event |-> "error"],
                          !.children = {},
                          !.emitted = {}]
  /\ DashFrame

\* socket.on('changeLanguage')
ChangeLanguage(s, language) ==
  /\ dash.up
  /\ dash' = [dash EXCEPT !.request = [socket |-> s, event |-> "changeLanguage"],
                          !.state = [@ EXCEPT !.currentLanguage = language],
                          !.emitted = {Emit("all", "state", "-")}]
  /\ DashFrame

\* socket.on('selectFile'): the file is read, or reading it throws
SelectFile(s, readable) ==
  /\ dash.up
  /\ dash' = [dash EXCEPT
                !.request = [socket |-> s, event |-> "selectFile"],
                !.state = [@ EXCEPT !.activeFile = IF readable THEN "file" ELSE @],
                !.emitted = IF readable THEN {Emit("all", "fileSelected", "-")}
                            ELSE {Emit(s, "error", "Error reading file")}]
  /\ DashFrame

InitDash ==
  /\ InitMem
  /\ ~persistToDisk
  /\ ~llm

NextDash ==
  \/ \E s \in Sockets : RunAgent(s)
  \/ \E p \in dash.children, graph \in BOOLEAN : ChildOutput(p, graph)
  \/ \E p \in dash.children : ChildClose(p)
  \/ \E p \in dash.children : ChildError(p)
  \/ \E s \in Sockets, language \in Languages : ChangeLanguage(s, language)
  \/ \E s \in Sockets, readable \in BOOLEAN : SelectFile(s, readable)

SpecDash == InitDash /\ [][NextDash]_vars

(***************************************************************************)
(* Properties of ManagerAgent.execute, stated for SpecMgr.                *)
(***************************************************************************)
\* C1: when the delegate of step N returns success:false or throws, execute
\* returns success=false and the run invokes no delegate after that of step N
C1_ShortCircuit ==
  cause.kind # "none" =>
    /\ pc = "settled"
    /\ outcome.state = "resolved"
    /\ ~outcome.success
    /\ step = cause.step
    /\ started = SubSeq(StepNames, 1, cause.step)
    /\ Len(invoked) = cause.step - 1
    /\ invoked[Len(invoked)] = Pipeline[cause.step].agentKey

\* a run that ended at the planner's success:false
C1_Witness ==
  /\ pc = "settled"
  /\ cause.kind = "false"
  /\ Pipeline[cause.step].name = "planSoftware"
  /\ ~outcome.success

\* C2: the steps of a run start in the order of the pipeline, each after the
\* one before it has returned, none left out, none started twice, and at no
\* time are two delegate execute calls of the run in flight
C2_FixedOrder ==
  /\ \E n \in 0..LastStep : started = SubSeq(StepNames, 1, n)
  /\ Len(completed) <= Len(started)
  /\ Len(started) <= Len(completed) + 1
  /\ completed = SubSeq(started, 1, Len(completed))
  /\ Cardinality(inflight) <= 1
  /\ inflight # {} => pc = "delegate" /\ inflight = {Pipeline[step].agentKey}

\* a run that went through all the steps
C2_Witness ==
  /\ pc = "settled"
  /\ outcome.success
  /\ started = StepNames
  /\ completed = StepNames

\* C3: execute of every agent class settles by returning a result, never by
\* throwing or rejecting
C3_ExecuteNeverRejects ==
  /\ delegateResult.kind # "rejected"
  /\ outcome.state # "rejected"

\* C4: when a delegate returns success:false with the message m, the Manager
\* returns success, error and message and no result, success is false and
\* error.message names the step and contains m
C4_FailureResult ==
  (pc = "settled" /\ cause.kind = "false") =>
    /\ outcome.fields = {"success", "error", "message"}
    /\ ~outcome.success
    /\ outcome.error.message[1] = Pipeline[cause.step].label
    /\ Contains(outcome.error.message, cause.m)
    /\ outcome.message = "Multi-agent process failed"

\* the architecture designer failed with the message m1
C4_Witness ==
  /\ pc = "settled"
  /\ cause.kind = "false"
  /\ cause.m = "m1"
  /\ Pipeline[cause.step].name = "designArchitecture"
  /\ outcome.error.message = <<"Architecture design", " failed: ", "m1">>

(***************************************************************************)
(* Properties of MemoryManager, stated for SpecMem.                       *)
(***************************************************************************)
\* C5: store(a,k,v) is an exact point update: retrieve(a,k) then returns v,
\* and retrieve(b,k2) returns what it returned before for every other pair
C5_StoreIsPointUpdate ==
  [][(last'.op = "store" /\ nops' # nops) =>
       LET before == World(last'.inst)
           after == [ms |-> memoryStore'[last'.inst], lc |-> langchainMemories'[last'.inst],
                     disk |-> disk', lcdisk |-> lcDisk']
       IN /\ retrieve(after, last'.agent, last'.key, FALSE).result = last'.value
          /\ \A b \in AgentIds, k2 \in ClientKeys :
               <<b, k2>> # <<last'.agent, last'.key>> =>
                 retrieve(after, b, k2, FALSE).result
                   = retrieve(before, b, k2, FALSE).result]_vars

\* C6: with persistence and no failing fs call, after store(a,k,v) of a value
\* JSON can hold, a new MemoryManager on the same directory retrieves v
C6_PersistenceRoundTrip ==
  [][(last'.op = "store" /\ nops' # nops /\ persistToDisk /\ ~last'.fail
        /\ JsonValue(last'.value) = last'.value) =>
       LET fresh == [ms |-> [a \in AgentIds |-> NoEntry],
                     lc |-> [a \in AgentIds |-> NoMemory],
                     disk |-> disk', lcdisk |-> lcDisk']
       IN retrieve(fresh, last'.agent, last'.key, FALSE).result = last'.value]_vars

C8_ClearEmpties ==
  [][(last'.op \in {"clear", "clearAll"} /\ nops' # nops /\ ~last'.fail) =>
       LET before == World(last'.inst)
           after == [ms |-> memoryStore'[last'.inst], lc |-> langchainMemories'[last'.inst],
                     disk |-> disk', lcdisk |-> lcDisk']
           cleared == IF last'.op = "clear" THEN {last'.agent} ELSE AgentIds
       IN /\ \A a \in cleared :
               /\ getAll(after, a, FALSE).result = EmptyMap
               /\ \A k \in ClientKeys : retrieve(after, a, k, FALSE).result = Undefined
          /\ \A b \in AgentIds \ cleared, k \in ClientKeys :
               retrieve(after, b, k, FALSE).result = retrieve(before, b, k, FALSE).result]_vars

\* C9: with persistence and no failing fs call, clear(a) leaves no file
\* <a>.json, whether or not this manager had loaded the agent's data, and
\* clear() leaves no file at all
C9_ClearDeletesFiles ==
  [][(last'.op \in {"clear", "clearAll"} /\ nops' # nops /\ persistToDisk /\ ~last'.fail) =>
       \A a \in (IF last'.op = "clear" THEN {last'.agent} ELSE AgentIds) :
         disk'[a].kind = "absent"]_vars

\* C10: store, retrieve, getAll, clear(a) and clear() never throw, whatever
\* the fs calls do
C10_NoDiskErrorPropagates ==
  last.op \in {"store", "retrieve", "getAll", "clear", "clearAll"} => ~last.threw

(***************************************************************************)
(* Properties of the Manager's use of its memory scope, stated for         *)
(* SpecMgr.  The program constructs its Managers with the shared           *)
(* MemoryManager; the properties speak of such a Manager (mgrMemory).      *)
(***************************************************************************)
\* C11: a successful run of execute has made exactly eight store calls, all
\* under the Manager's id, for the keys original_prompt, requirements,
\* architecture, libraries, software_plan, code_result, debug_result and
\* dependency_analysis in that order, and at no time has a run stored the
\* same key twice
C11_EightStoresInOrder ==
  /\ \A m, n \in DOMAIN storeLog : m # n => storeLog[m].key # storeLog[n].key
  /\ (mgrMemory /\ outcome.state = "resolved" /\ outcome.success) =>
       /\ Len(storeLog) = 8
       /\ \A n \in DOMAIN storeLog :
            /\ storeLog[n].agent = ManagerId
            /\ storeLog[n].key = SavedKeys[n]

\* a second run of the same Manager that succeeded, with its eight stores
C11_Witness ==
  /\ mgrMemory
  /\ runs = 2
  /\ pc = "settled"
  /\ outcome.success
  /\ Len(storeLog) = 8

\* C12: when the delegate of step N+1 has been invoked, the result of step N
\* has been stored under the Manager's id, and from its store to the end of
\* the run retrieveFromMemory of a step's key returns the value the step
\* returned in this run
C12_StoredBeforeNextStep ==
  mgrMemory =>
    /\ \A n \in DOMAIN invoked :
         /\ invoked[n] = Pipeline[n + 1].agentKey
         /\ Len(storeLog) >= n + 1
         /\ storeLog[n + 1] = [agent |-> ManagerId, key |-> Pipeline[n].key,
                               value |-> locals[Pipeline[n].key]]
    /\ \A n \in DOMAIN storeLog :
         /\ n > 1 => storeLog[n].value = locals[storeLog[n].key]
         /\ retrieveFromMemory(World(1), storeLog[n].key).result = storeLog[n].value

\* a second run whose designer returned no design, at the await in
\* analyzeDependencies, which has read the architecture back
C12_Witness ==
  /\ mgrMemory
  /\ runs = 2
  /\ pc = "delegate"
  /\ Pipeline[step].name = "analyzeDependencies"
  /\ locals["architecture"] = EmptyObject
  /\ retrieveFromMemory(World(1), "architecture").result = EmptyObject

\* C13: when every delegate of a run has returned success:true, execute
\* returns success:true and the summary string of its result contains the
\* architecture summary, the library names, the plan summary, the debug
\* status and the dependency status of this run
C13_SummaryOfSuccessfulRun ==
  (mgrMemory /\ pc = "settled" /\ cause.kind = "none") =>
    /\ outcome.success
    /\ \A k \in DOMAIN SummaryDefaults :
         Contains(outcome.result.text, Fragment(k, locals[k]))

\* C14: the result of a successful run has as architecture, libraries, plan,
\* debug_info and dependencies the values the steps designArchitecture,
\* researchLibraries, planSoftware, debugCode and analyzeDependencies
\* returned in this run, and as files the files of the code generated in it
C14_ResultFieldsOfRun ==
  (mgrMemory /\ pc = "settled" /\ outcome.success) =>
    \A n \in DOMAIN SummaryKeys : outcome.result.parts[SummaryKeys[n]] = locals[SummaryKeys[n]]

\* C15: getOrCreateAgent constructs an agent only for a key that holds none;
\* an agent held under a key stays there, the same instance, through every
\* later call and every later run, so that no key ever has a second
\* instance, and the conversation history of the agent only grows
C15_AgentsCreatedOnce ==
  [][LET IsPrefix(s, t) == Len(s) <= Len(t) /\ SubSeq(t, 1, Len(s)) = s
     IN /\ \A key \in AgentKeys :
             specializedAgents[key] # NoAgent =>
               /\ specializedAgents'[key] = specializedAgents[key]
               /\ IsPrefix(conversationHistory[key], conversationHistory'[key])
        /\ agentsCreated' = Cardinality({key \in AgentKeys : specializedAgents'[key] # NoAgent})
        /\ \A j, k \in AgentKeys :
             (j # k /\ specializedAgents'[j] # NoAgent) =>
               specializedAgents'[j] # specializedAgents'[k]]_vars

\* the second run of a Manager calls the designer it created in its first
\* run, whose history holds the three entries of the first call
C15_Witness ==
  /\ runs = 2
  /\ pc = "delegate"
  /\ Pipeline[step].agentKey = "architecture_designer"
  /\ agentsCreated = 6
  /\ specializedAgents["architecture_designer"] = 1
  /\ [n \in DOMAIN conversationHistory["architecture_designer"] |->
          conversationHistory["architecture_designer"][n].role] =
       <<"system", "user", "assistant", "system", "user">>

\* C16: execute of the ExceptionDebuggerAgent called without code, or with an
\* empty code object, returns success=false with the error 'No code provided
\* for debugging', produces no debug_result and appends no assistant message
\* to the conversation
C16_DebuggerWithoutCode ==
  (pc = "settled" /\ Pipeline[step].name = "debugCode"
     /\ locals["code_result"] \in {Undefined, EmptyObject}) =>
    /\ delegateResult.kind = "resolved"
    /\ ~delegateResult.success
    /\ delegateResult.error = Error(<<"No code provided for debugging">>)
    /\ delegateResult.payload = Undefined
    /\ conversationHistory["exception_debugger"]
         [Len(conversationHistory["exception_debugger"])].role = "user"

\* C17: after a run that failed at step N the Manager's scope holds what the
\* run wrote before step N, the prompt and the results of the steps that
\* returned, with the values they returned; the run wrote nothing for step N
\* or a later step, and after a first run the scope holds no such entry
C17_ScopeAfterFailedRun ==
  (mgrMemory /\ pc = "settled" /\ ~outcome.success) =>
    /\ Len(storeLog) = step
    /\ \A n \in 1..step :
         /\ storeLog[n].key = SavedKeys[n]
         /\ n > 1 => storeLog[n].value = locals[SavedKeys[n]]
         /\ retrieveFromMemory(World(1), SavedKeys[n]).result = storeLog[n].value
    /\ runs = 1 =>
         \A n \in (step + 1)..Len(SavedKeys) :
           retrieveFromMemory(World(1), SavedKeys[n]).result = Undefined

\* a second run that failed at the planner's success:false, after a first run
\* that had got to the debugger
C17_Witness ==
  /\ mgrMemory
  /\ runs = 2
  /\ pc = "settled"
  /\ ~outcome.success
  /\ Pipeline[step].name = "planSoftware"
  /\ Len(storeLog) = 4
  /\ retrieveFromMemory(World(1), "code_result").result # Undefined

(***************************************************************************)
(* Properties of the MemoryManager's files, stated for SpecMem.            *)
(***************************************************************************)
\* C18: with persistence, right after a store(a,k,v) whose fs calls did not
\* fail the file <a>.json holds the JSON text of the whole map the manager
\* has in memory for a, with every key of it
C18_FileMirrorsMap ==
  [][(last'.op = "store" /\ nops' # nops /\ persistToDisk /\ ~last'.fail) =>
       /\ memoryStore'[last'.inst][last'.agent].has
       /\ memoryStore'[last'.inst][last'.agent].map[last'.key] = last'.value
       /\ disk'[last'.agent] = JSONstringify(memoryStore'[last'.inst][last'.agent].map)]_vars

\* a store of k1 by a manager that holds another key of the agent: the file
\* has both
C18_Witness ==
  /\ persistToDisk
  /\ last.op = "store"
  /\ ~last.fail
  /\ last.key = "k1"
  /\ memoryStore[last.inst][last.agent].map[ConversationKey] = "NaN"
  /\ disk[last.agent].kind = "json"
  /\ disk[last.agent].body["k1"] = last.value
  /\ disk[last.agent].body[ConversationKey] = JsonNull

(***************************************************************************)
(* Properties of a MemoryManager whose directory others write to, stated   *)
(* for SpecDir.                                                            *)
(***************************************************************************)
\* C19: with persistence a retrieve or getAll for agent a that is not the
\* manager's first access to a since construction or clear reads no file:
\* it leaves the memory as it is and answers from it, whatever has happened
\* to a's file since
C19_ReadAtMostOnFirstAccess ==
  [][(nops' # nops /\ persistToDisk
        /\ last.op \in {"retrieve", "getAll"} /\ last'.op \in {"retrieve", "getAll"}
        /\ last'.inst = last.inst /\ last'.agent = last.agent) =>
       /\ memoryStore'[last'.inst][last'.agent] = memoryStore[last'.inst][last'.agent]
       /\ last'.op = "retrieve" =>
            last'.result = memoryStore[last'.inst][last'.agent].map[last'.key]]_vars

\* C19, amended: with persistence a retrieve or getAll for an agent the
\* manager holds an entry for reads no file: it leaves memory and files as
\* they are and answers from the entry, whatever has happened to the
\* agent's file since
C19_EntryIsAuthoritative ==
  [][(nops' # nops /\ persistToDisk /\ last'.op \in {"retrieve", "getAll"}
        /\ memoryStore[last'.inst][last'.agent].has) =>
       /\ memoryStore' = memoryStore
       /\ disk' = disk
       /\ lcDisk' = lcDisk
       /\ last'.op = "retrieve" =>
            last'.result = memoryStore[last'.inst][last'.agent].map[last'.key]]_vars

\* a retrieve answered with the stored value after another process has
\* written a different one to the agent's file
C19_Witness ==
  /\ persistToDisk
  /\ last.op = "retrieve"
  /\ last.key = "k1"
  /\ last.result = "v1"
  /\ memoryStore[last.inst][last.agent].has
  /\ disk[last.agent] = OtherFile

C21_HistoryAppendOnly ==
  [][\A a \in Agents :
       LET old == conversationHistory[a]
           new == conversationHistory'[a]
           added == SubSeq(new, Len(old) + 1, Len(new))
           roles == [n \in DOMAIN added |-> added[n].role]
       IN /\ Len(old) <= Len(new)
          /\ SubSeq(new, 1, Len(old)) = old
          /\ roles \in {<<>>, <<"user">>, <<"system", "user">>, <<"assistant">>,
                       <<"user", "assistant">>}
          /\ roles = <<"user">> => a = "manager" /\ added[1].content \in Prompts
          /\ roles = <<"system", "user">> =>
               /\ a = Pipeline[step'].agentKey
               /\ added[1].content = SystemMessage
               /\ added[2].content = StepPrompt(step')
          /\ roles = <<"assistant">> =>
               /\ a = Pipeline[step].agentKey
               /\ added[1].content = AssistantSummary
          /\ roles = <<"user", "assistant">> =>
               /\ a = Pipeline[step].agentKey
               /\ added[1].content = StepPrompt(step)
               /\ added[2].content = delegateResult'.output]_vars

\* the Manager in its second run with both prompts in its history, calling
\* the planner, which has the three entries of the first run and two new
C21_Witness ==
  /\ runs = 2
  /\ pc = "delegate"
  /\ Pipeline[step].name = "planSoftware"
  /\ Len(conversationHistory["manager"]) = 2
  /\ Len(conversationHistory["software_planner"]) = 5
  /\ conversationHistory["software_planner"][3].role = "assistant"
  /\ conversationHistory["software_planner"][5] =
       [role |-> "user", content |-> StepPrompt(step)]

\* ---- C22 ----
\* C22: every successful execute of a specialized agent leaves, as the last
\* entries of that agent's conversation, the three entries it appended in this
\* order: one system message, one user message equal to the prompt, one
\* assistant message, and the result carries success and the payload. (The
\* step that settles a delegate's execute is the step the property looks at.)
C22_SystemUserAssistant ==
  [][(pc = "delegate" /\ pc' # "delegate" /\ delegateResult'.success
        /\ delegateResult'.payload # Undefined) =>
       LET before == conversationHistory[Pipeline[step].agentKey]
           after == conversationHistory'[Pipeline[step].agentKey]
           n == Len(after)
       IN /\ n >= 3
          /\ Len(before) <= n - 1
          /\ after[n - 2].role = "system"
          /\ after[n - 1] = [role |-> "user", content |-> StepPrompt(step)]
          /\ after[n].role = "assistant"
          /\ delegateResult'.kind = "resolved"]_vars

\* ---- C27 ----
\* C27: when the output of the agent executor is not valid JSON, the result of
\* ArchitectureDesignerAgent.execute has success false and a defined error.
C27_InvalidOutputFails ==
  delegateResult.output = "not json" =>
    /\ ~delegateResult.success
    /\ delegateResult.error # NoError

(***************************************************************************)
(* Properties of two MemoryManagers on one directory, stated for SpecTwo.  *)
(***************************************************************************)
\* C23: with two persisting instances on one directory storing under the
\* same agent id, the file holds only the map of the instance that wrote
\* last: after a store by an instance the file has exactly the keys of that
\* instance's map, so a key only the other instance stored is gone from the
\* file; and a fresh instance (one without an entry for the agent) answers a
\* retrieve with what the file holds.  The witness is the interleaving the
\* statement speaks of.
C23_LastWriterOwnsFile ==
  [][(nops' # nops) =>
       LET i == last'.inst
           a == last'.agent
       IN /\ last'.op = "store" =>
               /\ disk'[a].kind = "json"
               /\ \A k \in AllKeys :
                    disk'[a].body[k] = JsonValue(memoryStore'[i][a].map[k])
               /\ \A k \in AllKeys \ {last'.key} :
                    (~memoryStore[i][a].has \/ memoryStore[i][a].map[k] = Undefined)
                      => disk'[a].body[k] = Undefined
          /\ (last'.op = "retrieve" /\ ~memoryStore[i][a].has /\ disk[a].kind = "json") =>
               last'.result = disk[a].body[last'.key]]_vars

\* instance 1 stored k1, instance 2 then stored the other key with a value
\* that JSON writes as null; a fresh instance 2 has read the file (it holds
\* null) and answers undefined for k1, which instance 1 still holds
C23_Witness ==
  /\ last.op = "retrieve"
  /\ last.inst = 2
  /\ last.key = "k1"
  /\ last.result = Undefined
  /\ <<SharedAgent, "k1">> \in everStored
  /\ memoryStore[1][SharedAgent].map["k1"] = "v1"
  /\ memoryStore[2][SharedAgent].map[ConversationKey] = JsonNull
  /\ disk[SharedAgent].kind = "json"
  /\ disk[SharedAgent].body["k1"] = Undefined

(***************************************************************************)
(* Termination of ManagerAgent.execute, stated for SpecMgrFair.            *)
(***************************************************************************)
\* the run has returned: execute's promise is resolved, with success (Done)
\* or with success false (Failed), and no delegate was invoked twice
RunReturned ==
  /\ pc = "settled"
  /\ outcome.state = "resolved"
  /\ \A m, n \in DOMAIN invoked : invoked[m] = invoked[n] => m = n

\* C24, as stated: if every delegate execute call eventually returns (the
\* fairness of SpecMgrFair), a started execute eventually returns with its
\* run Done or Failed, having invoked each delegate at most once
C24_ExecuteReturns ==
  (pc \notin {"idle", "settled"}) ~> RunReturned

\* C24, with the hypothesis the LangChain source needs: if, besides, every
\* invocation of the Manager's own tools (analyze_requirements,
\* process_agent_result, create_final_summary) eventually returns, a started
\* execute eventually returns with its run Done or Failed, having invoked
\* each delegate at most once
C24_ExecuteReturnsIfToolsReturn ==
  (WF_vars(AnalyzeReturns) /\ WF_vars(ProcessReturns) /\ WF_vars(SummaryReturns))
    => ((pc \notin {"idle", "settled"}) ~> RunReturned)

\* a run of the LangChain source that has returned with success after
\* invoking all six delegates
C24_Witness ==
  /\ variant = "langchain"
  /\ RunReturned
  /\ outcome.success
  /\ Len(invoked) = Cardinality(AgentKeys)

(***************************************************************************)
(* The states of a run, stated for SpecMgr.                                *)
(***************************************************************************)
\* once a run is Done or Failed (execute has returned) no step of it
\* executes: the only thing that happens is the start of another run
RunAbsorbed ==
  pc = "settled" =>
    /\ runs' = runs + 1
    /\ pc' = "analyze"
    /\ started' = <<Pipeline[1].name>>
    /\ invoked' = <<>>

\* C25, as stated: Failed is entered from every one of the eight steps,
\* AnalyzeRequirements and Summarize among them, so what goes wrong inside a
\* step (for these two: their tool throwing or answering no JSON) takes the
\* run to Failed; and a run that is Done or Failed executes no further step
C25_FailedFromEveryStep ==
  [][/\ RunAbsorbed
     /\ (pc = "analyze" /\ ret' = "fallback requirements") =>
          (pc' = "settled" /\ ~outcome'.success)
     /\ (pc = "summary" /\ finalResult'.kind \in {"basic", "text"}) =>
          (pc' = "settled" /\ ~outcome'.success)
     /\ (pc = "delegate" /\ ~delegateResult'.success) =>
          (pc' = "settled" /\ ~outcome'.success)]_vars

\* C25, as the code has it: Failed is entered from the six delegate steps
\* (whenever the delegate's execute rejects or returns without success) and,
\* in the LangChain source, from the end of execute after Summarize (when the
\* summary has no summary string); analyzeRequirements and createFinalSummary
\* catch what goes wrong in them and the run goes on, so Failed is not
\* entered from AnalyzeRequirements; Failed is one state of the same shape
\* wherever it was entered, and a run that is Done or Failed executes no
\* further step
C25_FailedFromDelegateSteps ==
  [][/\ RunAbsorbed
     /\ (pc = "analyze") => (pc' = "return" /\ outcome' = Pending)
     /\ (pc = "summary") => (pc' = "return" /\ outcome' = Pending)
     /\ (pc = "delegate" /\ ~delegateResult'.success) =>
          (pc' = "settled" /\ ~outcome'.success)
     /\ (pc # "settled" /\ pc' = "settled" /\ ~outcome'.success) =>
          /\ \/ pc = "delegate"
             \/ pc = "return" /\ step = LastStep /\ variant = "langchain"
          /\ outcome' = Failure(outcome'.error)]_vars

\* a second run, begun after the first had returned, that failed in
\* analyzeDependencies, the last delegate step
C25_Witness ==
  /\ runs = 2
  /\ pc = "settled"
  /\ ~outcome.success
  /\ Pipeline[step].name = "analyzeDependencies"
  /\ cause.step = step

(***************************************************************************)
(* Properties of the LangChain memories, stated for SpecMem.               *)
(***************************************************************************)
\* C26: a getLangChainMemory(a, t) for an agent that has a memory returns
\* that very memory when it is of type t, and a different memory when it is
\* of another type.  (The memory returned is the one the manager holds for
\* the agent after the call.)
C26_OneMemoryPerType ==
  [][(last'.op = "getLangChainMemory" /\ nops' # nops /\ ~last'.threw) =>
       LET before == langchainMemories[last'.inst][last'.agent]
           after == langchainMemories'[last'.inst][last'.agent]
       IN /\ after.has
          /\ (before.has /\ before.type = last'.value) => after = before
          /\ (before.has /\ before.type # last'.value) => after # before]_vars

\* C28: with persistence, what an earlier MemoryManager persisted for agent a
\* survives a later session: when a new instance on the directory calls
\* store(a,k2,v2) as its first operation (no fs call failing), every other
\* key k1 the agent's file held is still retrieved with the value of the
\* file and is still in the file
C28_PersistedKeysSurvive ==
  [][(last'.op = "store" /\ nops' # nops /\ persistToDisk /\ ~last'.fail
        /\ last.op = "new" /\ last.inst = last'.inst
        /\ disk[last'.agent].kind = "json") =>
       LET a == last'.agent
           after == [ms |-> memoryStore'[last'.inst], lc |-> langchainMemories'[last'.inst],
                     disk |-> disk', lcdisk |-> lcDisk']
       IN \A k1 \in ClientKeys \ {last'.key} :
            disk[a].body[k1] # Undefined =>
              /\ retrieve(after, a, k1, FALSE).result = disk[a].body[k1]
              /\ disk'[a].kind = "json"
              /\ disk'[a].body[k1] = disk[a].body[k1]]_vars

(***************************************************************************)
(* Properties of overlapping execute calls, stated for SpecOverlap.        *)
(***************************************************************************)
\* C29: when two execute calls on one Manager overlap, what a call returns
\* is built from the intermediate results of its own run only: the values
\* its createFinalSummary puts into the result and the summary text, and the
\* architecture its analyzeDependencies works from, are values of that call
C29_OwnRunOnly ==
  \A c \in CallIds :
    calls[c].at = "done" =>
      /\ \A n \in DOMAIN SummaryKeys : calls[c].parts[SummaryKeys[n]] = CallValue(c)
      /\ \A n \in DOMAIN calls[c].text : calls[c].text[n] = CallValue(c)
      /\ calls[c].architecture = CallValue(c)

(***************************************************************************)
(* Properties of the dashboard server, stated for SpecDash.                *)
(***************************************************************************)
\* C30: the dashboard server runs at most one agent process at a time:
\* while the server is up, state.isRunning is true exactly while a child
\* process spawned for an accepted runAgent event has not had its close
\* event; and a runAgent event received while state.isRunning is true spawns
\* no process, leaves the state object unchanged and sends the error 'Agent
\* is already running' to the requesting socket and to no other
C30_OneAgentProcess ==
  /\ [](dash.up =>
          /\ Cardinality(dash.children) <= 1
          /\ dash.state.isRunning <=> dash.children # {})
  /\ [][(dash.state.isRunning /\ dash'.request.event = "runAgent" /\ dash' # dash) =>
          /\ dash'.children = dash.children
          /\ dash'.spawned = dash.spawned
          /\ dash'.state = dash.state
          /\ dash'.emitted =
               {Emit(dash'.request.socket, "error", "Agent is already running")}]_vars

\* the first child process is running and has logged output; the runAgent
\* of socket s2 has just been answered with the error
C30_Witness ==
  /\ dash.up
  /\ dash.state.isRunning
  /\ dash.state.logs > 0
  /\ dash.children = {[id |-> 1, kind |-> "process"]}
  /\ dash.request = [socket |-> "s2", event |-> "runAgent"]
  /\ dash.emitted = {Emit("s2", "error", "Agent is already running")}

====
